---- MODULE Spec2Model ----
(***************************************************************************)
(* bot.py (Version 17): the private-channel content index of the movie     *)
(* bot, its caption parser and the query resolver.                         *)
(*                                                                         *)
(* Python strings are sequences of one-character strings, so that the      *)
(* regular expressions, str.strip, str.lower, str.split and the substring  *)
(* tests of the source are computed character by character.                *)
(***************************************************************************)
EXTENDS Integers, Sequences, FiniteSets, TLC

VARIABLES
    movie_index,    \* bot.py:23  key -> entry, the module-level dict
    user_data,      \* context.user_data['language'] of each user (None: unset)
    reactions,      \* update_index handlers suspended in add_reaction, by message id
    react_log,      \* outcome of the last add_reaction that returned or raised
    search,         \* the search_media handler: where it is, what it holds,
                    \* and (history) the provider's answer and the index it read
    last_update,    \* history: the last update handled by update_index, whether
                    \* it was stored, whether it repeats the one before
    prev_index,     \* history: movie_index as that update found it
    n_posts         \* history: number of updates handled by update_index

vars == <<movie_index, user_data, reactions, react_log, search, last_update,
          prev_index, n_posts>>

\* Python's None where the other values are strings.
None == "None"

\* Bounds of the model: updates handled by update_index, and update_index
\* handlers suspended in add_reaction at the same time.
MaxPosts == 2

MaxPending == 2

\* Results in one answer of the provider.
MaxResults == 2

-----------------------------------------------------------------------------
(* Characters and the str methods of the source.                           *)

UpperCase == {"A","B","C","D","E","F","G","H","I","J","K","L","M",
              "N","O","P","Q","R","S","T","U","V","W","X","Y","Z"}

LowerCase == {"a","b","c","d","e","f","g","h","i","j","k","l","m",
              "n","o","p","q","r","s","t","u","v","w","x","y","z"}

LowerOf ==
    "A" :> "a" @@ "B" :> "b" @@ "C" :> "c" @@ "D" :> "d" @@ "E" :> "e" @@
    "F" :> "f" @@ "G" :> "g" @@ "H" :> "h" @@ "I" :> "i" @@ "J" :> "j" @@
    "K" :> "k" @@ "L" :> "l" @@ "M" :> "m" @@ "N" :> "n" @@ "O" :> "o" @@
    "P" :> "p" @@ "Q" :> "q" @@ "R" :> "r" @@ "S" :> "s" @@ "T" :> "t" @@
    "U" :> "u" @@ "V" :> "v" @@ "W" :> "w" @@ "X" :> "x" @@ "Y" :> "y" @@
    "Z" :> "z"

\* [a-zA-Z]
IsAlpha(ch) == ch \in UpperCase \cup LowerCase

\* \s of re, and the characters str.strip() removes
Whitespace == {" ", "\t", "\n", "\r"}

IsSpace(ch) == ch \in Whitespace

NL == "\n"

LowerChar(ch) == IF ch \in UpperCase THEN LowerOf[ch] ELSE ch

\* str.lower()
lower(s) == [i \in 1..Len(s) |-> LowerChar(s[i])]

\* s[i-1:j] of Python, 1-based and inclusive here; empty when j < i
Slice(s, i, j) == IF j < i THEN <<>> ELSE SubSeq(s, i, j)

\* str.strip()
strip(s) ==
    LET keep == {i \in 1..Len(s) : ~IsSpace(s[i])}
    IN  IF keep = {} THEN <<>>
        ELSE LET first == CHOOSE i \in keep : \A j \in keep : i <= j
                 last  == CHOOSE i \in keep : \A j \in keep : j <= i
             IN  SubSeq(s, first, last)

\* w occurs in s at position i, letter case respected
OccursAt(s, w, i) ==
    /\ i >= 1
    /\ i + Len(w) - 1 <= Len(s)
    /\ \A k \in 1..Len(w) : s[i + k - 1] = w[k]

\* w occurs in s at position i, letter case ignored (re.IGNORECASE)
OccursAtIgnoreCase(s, w, i) ==
    /\ i >= 1
    /\ i + Len(w) - 1 <= Len(s)
    /\ \A k \in 1..Len(w) : LowerChar(s[i + k - 1]) = LowerChar(w[k])

\* w in s
Contains(s, w) == \E i \in 1..Len(s) : OccursAt(s, w, i)

\* s.startswith(w)
startswith(s, w) == OccursAt(s, w, 1)

\* least element of a non-empty set of integers
Min(S) == CHOOSE x \in S : \A y \in S : x <= y

\* greatest element of a non-empty set of integers
Max(S) == CHOOSE x \in S : \A y \in S : y <= x

\* s.split(sep) for a one-character sep: the pieces between the
\* separators, empty pieces kept
RECURSIVE split(_, _)
split(s, sep) ==
    LET seps == {i \in 1..Len(s) : s[i] = sep}
    IN  IF seps = {} THEN <<s>>
        ELSE LET i == Min(seps)
             IN  <<Slice(s, 1, i - 1)>> \o split(Slice(s, i + 1, Len(s)), sep)

\* '\n'.join(lines)
RECURSIVE join(_)
join(lines) ==
    IF Len(lines) = 0 THEN <<>>
    ELSE IF Len(lines) = 1 THEN lines[1]
    ELSE lines[1] \o <<NL>> \o join(Tail(lines))

-----------------------------------------------------------------------------
(* The regular expressions of update_index.                                *)

\* A match object reduced to group(1); matched is FALSE for None.
NoMatch == [matched |-> FALSE, group |-> <<>>]

\* The literal parts of the patterns and of the substring tests.
TitleMarker == <<"#","T","i","t","l","e">>

LangMarker == <<"#","L","a","n","g">>

ButtonMarker == <<"#","B","u","t","t","o","n">>

ButtonPrefix == <<"#","b","u","t","t","o","n">>

\* End of the longest run of \s that starts at p: the first position from p
\* on that holds no whitespace, Len(s) + 1 when the run reaches the end.
WsRunEnd(s, p) ==
    LET stops == {j \in p..Len(s) : ~IsSpace(s[j])}
    IN  IF stops = {} THEN Len(s) + 1 ELSE Min(stops)

\* End of the longest run of [^\n] that starts at j (greedy [^\n]+).
LineEnd(s, j) ==
    LET nls == {k \in j..Len(s) : s[k] = NL}
    IN  IF nls = {} THEN Len(s) ELSE Min(nls) - 1

\* Where group(1) of #Title\s+([^\n]+) starts when the marker is at i:
\* \s+ is greedy and gives characters back until [^\n] can match, so the
\* group starts at the last position after a non-empty whitespace run that
\* holds something other than a newline. The set is empty: no match at i.
TitleGroupStarts(s, i) ==
    LET p == i + Len(TitleMarker)
        e == WsRunEnd(s, p)
    IN  IF ~OccursAtIgnoreCase(s, TitleMarker, i) THEN {}
        ELSE {j \in (p + 1)..e : j <= Len(s) /\ s[j] # NL}

\* re.search(r'#Title\s+([^\n]+)', caption, re.IGNORECASE): leftmost match
title_search(caption) ==
    LET at == {i \in 1..Len(caption) : TitleGroupStarts(caption, i) # {}}
    IN  IF at = {} THEN NoMatch
        ELSE LET j == Max(TitleGroupStarts(caption, Min(at)))
             IN  [matched |-> TRUE,
                  group   |-> Slice(caption, j, LineEnd(caption, j))]

\* Where group(1) of #Lang\s+([a-zA-Z]{2}) starts when the marker is at i.
LangGroupStarts(s, i) ==
    LET p == i + Len(LangMarker)
        e == WsRunEnd(s, p)
    IN  IF ~OccursAtIgnoreCase(s, LangMarker, i) THEN {}
        ELSE {j \in (p + 1)..e :
                 j + 1 <= Len(s) /\ IsAlpha(s[j]) /\ IsAlpha(s[j + 1])}

\* re.search(r'#Lang\s+([a-zA-Z]{2})', caption, re.IGNORECASE)
lang_search(caption) ==
    LET at == {i \in 1..Len(caption) : LangGroupStarts(caption, i) # {}}
    IN  IF at = {} THEN NoMatch
        ELSE LET j == Max(LangGroupStarts(caption, Min(at)))
             IN  [matched |-> TRUE, group |-> Slice(caption, j, j + 1)]

\* No newline in s[a..b] ('.' does not match a newline).
NoNewline(s, a, b) == \A k \in a..b : s[k] # NL

\* The ')' that ends the lazy (.*?) of the url once "](" ends at j + 1.
UrlEnds(s, j) ==
    {k \in (j + 2)..Len(s) : s[k] = ")" /\ NoNewline(s, j + 2, k - 1)}

\* The ']' positions at which \[(.*?)\]\( ... \) can match for a '[' at i.
LabelEnds(s, i) ==
    {j \in (i + 1)..(Len(s) - 1) :
        /\ s[j] = "]"
        /\ s[j + 1] = "("
        /\ NoNewline(s, i + 1, j - 1)
        /\ UrlEnds(s, j) # {}}

\* re.findall(r'\[(.*?)\]\((.*?)\)', line) from position pos on: the
\* (text, url) pairs of the non-overlapping matches, left to right.
RECURSIVE findall_from(_, _)
findall_from(line, pos) ==
    LET at == {i \in pos..Len(line) : line[i] = "[" /\ LabelEnds(line, i) # {}}
    IN  IF at = {} THEN <<>>
        ELSE LET i == Min(at)
                 j == Min(LabelEnds(line, i))
                 k == Min(UrlEnds(line, j))
             IN  <<[text |-> Slice(line, i + 1, j - 1),
                    url  |-> Slice(line, j + 2, k - 1)]>>
                 \o findall_from(line, k + 1)

findall(line) == findall_from(line, 1)

\* bot.py:111-113: the buttons of one line's matches
RECURSIVE buttons_of_matches(_)
buttons_of_matches(matches) ==
    IF Len(matches) = 0 THEN <<>>
    ELSE LET m == Head(matches)
         IN  (IF m.text # <<>> /\ m.url # <<>>
              THEN <<[text |-> strip(m.text), url |-> strip(m.url)]>>
              ELSE <<>>)
             \o buttons_of_matches(Tail(matches))

\* Mutant: the marker of a button line compared without lower().
IsButtonLine_without_lower(line) == startswith(strip(line), ButtonPrefix)

\* bot.py:109: line.strip().lower().startswith('#button')
IsButtonLine(line) == startswith(lower(strip(line)), ButtonPrefix)

\* bot.py:107-113 over the lines of the caption
RECURSIVE buttons_of_lines(_)
buttons_of_lines(lines) ==
    IF Len(lines) = 0 THEN <<>>
    ELSE (IF IsButtonLine(Head(lines))
          THEN buttons_of_matches(findall(Head(lines)))
          ELSE <<>>)
         \o buttons_of_lines(Tail(lines))

extract_buttons(caption) == buttons_of_lines(split(caption, NL))

\* bot.py:78, 79, 81
title_of(caption) == lower(strip(title_search(caption).group))

lang_of(caption) == lower(strip(lang_search(caption).group))

index_key(title, lang) == title \o <<"_">> \o lang

-----------------------------------------------------------------------------
(* The caption cleaning of search_media.                                   *)

\* bot.py:169
IsTagLine(line) ==
    \/ Contains(line, TitleMarker)
    \/ Contains(line, LangMarker)
    \/ Contains(line, ButtonMarker)

\* bot.py:167-171
RECURSIVE kept_lines(_)
kept_lines(lines) ==
    IF Len(lines) = 0 THEN <<>>
    ELSE (IF IsTagLine(Head(lines)) THEN <<>> ELSE <<Head(lines)>>)
         \o kept_lines(Tail(lines))

\* bot.py:172
clean_caption(original_caption) == strip(join(kept_lines(split(original_caption, NL))))

-----------------------------------------------------------------------------
(* Captions of channel posts, written out character by character.          *)

\* '#Title Foo\n#Lang en'
CapFoo ==
    <<"#","T","i","t","l","e"," ","F","o","o","\n","#","L","a","n","g"," ",
      "e","n">>

\* '#Title Foo Updated\n#Lang en'
CapFooUpdated ==
    <<"#","T","i","t","l","e"," ","F","o","o"," ","U","p","d","a","t","e",
      "d","\n","#","L","a","n","g"," ","e","n">>

\* '#title  FOO \nA story\n#LANG EN\n#Button [Watch](u1)'
CapFooStory ==
    <<"#","t","i","t","l","e"," "," ","F","O","O"," ","\n","A"," ","s","t",
      "o","r","y","\n","#","L","A","N","G"," ","E","N","\n","#","B","u","t",
      "t","o","n"," ","[","W","a","t","c","h","]","(","u","1",")">>

\* '#Title Foo\nA story'
CapNoLang ==
    <<"#","T","i","t","l","e"," ","F","o","o","\n","A"," ","s","t","o","r",
      "y">>

\* 'A story\n#Lang en'
CapNoTitle ==
    <<"A"," ","s","t","o","r","y","\n","#","L","a","n","g"," ","e","n">>

\* 'Watch here\n[Server 1](https://a.test)\n[Server 2](https://b.test)'
CapLinks ==
    <<"W","a","t","c","h"," ","h","e","r","e","\n","[","S","e","r","v","e",
      "r"," ","1","]","(","h","t","t","p","s",":","/","/","a",".","t","e",
      "s","t",")","\n","[","S","e","r","v","e","r"," ","2","]","(","h","t",
      "t","p","s",":","/","/","b",".","t","e","s","t",")">>

\* '#TITLE\tThe Foo  \n#lang FR'
CapTheFoo ==
    <<"#","T","I","T","L","E","\t","T","h","e"," ","F","o","o"," "," ","\n",
      "#","l","a","n","g"," ","F","R">>

\* '#Title\n#Lang en'
CapEmptyTitle ==
    <<"#","T","i","t","l","e","\n","#","L","a","n","g"," ","e","n">>

\* '#Title \nA story\n#Lang en'
CapTitleNextLine ==
    <<"#","T","i","t","l","e"," ","\n","A"," ","s","t","o","r","y","\n","#",
      "L","a","n","g"," ","e","n">>

\* '#Lang en\n#Title  '
CapBlankTitleAtEnd ==
    <<"#","L","a","n","g"," ","e","n","\n","#","T","i","t","l","e"," "," ">>

\* 'New: #Title Foo #Lang en'
CapInline ==
    <<"N","e","w",":"," ","#","T","i","t","l","e"," ","F","o","o"," ","#",
      "L","a","n","g"," ","e","n">>

\* '#TitleFoo\n#Lang en'
CapGluedTitle ==
    <<"#","T","i","t","l","e","F","o","o","\n","#","L","a","n","g"," ","e",
      "n">>

\* '#Title Foo\n#Lang english'
CapLangEnglish ==
    <<"#","T","i","t","l","e"," ","F","o","o","\n","#","L","a","n","g"," ",
      "e","n","g","l","i","s","h">>

\* '#Title Foo\n#Lang e'
CapLangShort ==
    <<"#","T","i","t","l","e"," ","F","o","o","\n","#","L","a","n","g"," ",
      "e">>

\* '#Title Foo\n#Lang en\n[Server 1](https://a.test)\n[Server 2](https://b.test)'
CapFooLinks ==
    <<"#","T","i","t","l","e"," ","F","o","o","\n","#","L","a","n","g"," ",
      "e","n","\n","[","S","e","r","v","e","r"," ","1","]","(","h","t","t",
      "p","s",":","/","/","a",".","t","e","s","t",")","\n","[","S","e","r",
      "v","e","r"," ","2","]","(","h","t","t","p","s",":","/","/","b",".",
      "t","e","s","t",")">>

\* '#Title Foo\n#Lang en\n#Button [Server 1](https://a.test) [Server 2](https://b.test)'
CapFooButtons ==
    <<"#","T","i","t","l","e"," ","F","o","o","\n","#","L","a","n","g"," ",
      "e","n","\n","#","B","u","t","t","o","n"," ","[","S","e","r","v","e",
      "r"," ","1","]","(","h","t","t","p","s",":","/","/","a",".","t","e",
      "s","t",")"," ","[","S","e","r","v","e","r"," ","2","]","(","h","t",
      "t","p","s",":","/","/","b",".","t","e","s","t",")">>

\* '#Title Foo\n#Lang en\n  #BUTTON [ A ]( u ) [](v) [B]() [ ](w)'
CapOddButtons ==
    <<"#","T","i","t","l","e"," ","F","o","o","\n","#","L","a","n","g"," ",
      "e","n","\n"," "," ","#","B","U","T","T","O","N"," ","["," ","A"," ",
      "]","("," ","u"," ",")"," ","[","]","(","v",")"," ","[","B","]","(",
      ")"," ","["," ","]","(","w",")">>

\* '#Title Foo\n#Lang en\n#Button [A](u)\nsee [B](v)\n#button [C](w)'
CapMixedLines ==
    <<"#","T","i","t","l","e"," ","F","o","o","\n","#","L","a","n","g"," ",
      "e","n","\n","#","B","u","t","t","o","n"," ","[","A","]","(","u",")",
      "\n","s","e","e"," ","[","B","]","(","v",")","\n","#","b","u","t","t",
      "o","n"," ","[","C","]","(","w",")">>

\* '#Title Foo\n#Lang en\n#Button [A]b](u'
CapBrokenButton ==
    <<"#","T","i","t","l","e"," ","F","o","o","\n","#","L","a","n","g"," ",
      "e","n","\n","#","B","u","t","t","o","n"," ","[","A","]","b","]","(",
      "u">>

\* '#title Foo\n#lang en\nA story\n#button [A](u)'
CapLowerTags ==
    <<"#","t","i","t","l","e"," ","F","o","o","\n","#","l","a","n","g"," ",
      "e","n","\n","A"," ","s","t","o","r","y","\n","#","b","u","t","t","o",
      "n"," ","[","A","]","(","u",")">>

\* A post without caption: caption is None, which `not caption` treats as ''.
NoCaption == <<>>

\* The captions of the model.
ParseCaptions ==
    {CapFoo, CapFooUpdated, CapFooStory, CapNoLang, CapNoTitle, CapLinks,
     CapTheFoo, CapEmptyTitle, CapTitleNextLine, CapBlankTitleAtEnd,
     CapInline, CapGluedTitle, CapLangEnglish, CapLangShort, CapFooLinks,
     CapFooButtons, CapOddButtons, CapMixedLines, CapBrokenButton,
     CapLowerTags}

AllCaptions == ParseCaptions \cup {NoCaption}

-----------------------------------------------------------------------------
(* Channel posts and update_index.                                         *)

\* bot.py:13, the configured source channel, and some other chat
PRIVATE_CHANNEL_ID == "-1001"

OtherChatId == "-2002"

MsgIds == {1, 2}

\* The attachment of a post: photo is the tuple of sizes, () when absent.
NoMedia == [photo |-> <<>>, video |-> None, document |-> None]

PhotoMedia == [photo |-> <<"photo-small", "photo-large">>, video |-> None,
               document |-> None]

VideoMedia == [photo |-> <<>>, video |-> "video-1", document |-> None]

DocumentMedia == [photo |-> <<>>, video |-> None, document |-> "document-1"]

\* The channel_post (edited: the edited_channel_post) of an Update.
Post(chat_id, message_id, caption, media, edited) ==
    [chat_id    |-> chat_id,
     message_id |-> message_id,
     caption    |-> caption,
     photo      |-> media.photo,
     video      |-> media.video,
     document   |-> media.document,
     edited     |-> edited]

\* `if x` of Python for a value that is None or a string
Truthy(x) == x # None /\ x # ""

\* bot.py:88-98
current_file(post) ==
    IF post.photo # <<>>
    THEN [file_id |-> post.photo[Len(post.photo)], file_type |-> "photo"]
    ELSE IF Truthy(post.video)
    THEN [file_id |-> post.video, file_type |-> "video"]
    ELSE IF Truthy(post.document)
    THEN [file_id |-> post.document, file_type |-> "document"]
    ELSE [file_id |-> None, file_type |-> None]

\* Mutant: the existing entry is read from a snapshot taken before any post.
existing_data_of_empty_index(index, key) == [file_id |-> None, file_type |-> None]

\* bot.py:84, movie_index.get(index_key, {}), then .get("file_id") and
\* .get("file_type") of it
existing_data(index, key) ==
    IF key \in DOMAIN index
    THEN [file_id |-> index[key].file_id, file_type |-> index[key].file_type]
    ELSE [file_id |-> None, file_type |-> None]

\* Mutant: the file of the previous entry is not carried over.
final_file_id_of_post_only(current, existing) == current.file_id

\* bot.py:103
final_file_id(current, existing) ==
    IF Truthy(current.file_id) THEN current.file_id ELSE existing.file_id

\* Mutant: the file type of the previous entry is not carried over.
final_file_type_of_post_only(current, existing) == current.file_type

\* bot.py:104
final_file_type(current, existing) ==
    IF Truthy(current.file_type) THEN current.file_type ELSE existing.file_type

\* bot.py:74-81 and 106-113: what update_index reads off a caption
parse(caption) ==
    [title_match |-> title_search(caption).matched,
     lang_match  |-> lang_search(caption).matched,
     index_key   |-> index_key(title_of(caption), lang_of(caption)),
     buttons     |-> extract_buttons(caption)]

\* parse, tabulated over the captions of the model
ParsedCaption == [c \in AllCaptions |-> parse(c)]

\* Mutant: the buttons of the previous entry are kept and the new ones added.
new_entry_adding_buttons(index, key, post) ==
    [file_id          |-> final_file_id(current_file(post), existing_data(index, key)),
     file_type        |-> final_file_type(current_file(post), existing_data(index, key)),
     original_caption |-> post.caption,
     message_id       |-> post.message_id,
     buttons          |-> (IF key \in DOMAIN index THEN index[key].buttons ELSE <<>>)
                          \o ParsedCaption[post.caption].buttons]

\* bot.py:115-121, the entry written for a post whose caption has both tags
new_entry(index, key, post) ==
    [file_id          |-> final_file_id(current_file(post), existing_data(index, key)),
     file_type        |-> final_file_type(current_file(post), existing_data(index, key)),
     original_caption |-> post.caption,
     message_id       |-> post.message_id,
     buttons          |-> ParsedCaption[post.caption].buttons]

\* Mutant: the language tag is not required.
Indexable_without_lang(post) ==
    /\ post.chat_id = PRIVATE_CHANNEL_ID
    /\ post.caption # <<>>
    /\ ParsedCaption[post.caption].title_match

\* Mutant: the chat of the post is not checked.
Indexable_any_chat(post) ==
    /\ post.caption # <<>>
    /\ ParsedCaption[post.caption].title_match
    /\ ParsedCaption[post.caption].lang_match

\* bot.py:67-77: the post gets as far as the write
Indexable(post) ==
    /\ post.chat_id = PRIVATE_CHANNEL_ID
    /\ post.caption # <<>>
    /\ ParsedCaption[post.caption].title_match
    /\ ParsedCaption[post.caption].lang_match

key_of(caption) == ParsedCaption[caption].index_key

\* Mutant: an entry that exists is kept (movie_index.setdefault).
Put_if_absent(index, key, entry) ==
    [k \in DOMAIN index \cup {key} |-> IF k \in DOMAIN index THEN index[k] ELSE entry]

\* movie_index[index_key] = {...}
Put(index, key, entry) ==
    [k \in DOMAIN index \cup {key} |-> IF k = key THEN entry ELSE index[k]]

\* Mutant: a post that is rejected clears the index.
index_after_clearing(index, post) ==
    IF Indexable(post)
    THEN Put(index, key_of(post.caption),
             new_entry(index, key_of(post.caption), post))
    ELSE [k \in {} |-> index[k]]

\* movie_index after bot.py:65-121 for this post
index_after(index, post) ==
    IF Indexable(post)
    THEN Put(index, key_of(post.caption),
             new_entry(index, key_of(post.caption), post))
    ELSE index

RECURSIVE SumOver(_, _)
SumOver(f, S) ==
    IF S = {} THEN 0
    ELSE LET x == CHOOSE y \in S : TRUE IN f[x] + SumOver(f, S \ {x})

\* Handlers suspended in add_reaction at the same time.
Pending == SumOver(reactions, MsgIds)

\* update_index, bot.py:62-124: from the start to the await of add_reaction
\* (which a post that is not indexed never reaches).
update_index(post) ==
    /\ n_posts < MaxPosts
    /\ Indexable(post) => Pending < MaxPending
    /\ movie_index' = index_after(movie_index, post)
    /\ reactions' = IF Indexable(post)
                    THEN [reactions EXCEPT ![post.message_id] = @ + 1]
                    ELSE reactions
    /\ last_update' = [post   |-> post,
                       stored |-> Indexable(post),
                       repeat |-> n_posts > 0 /\ last_update.post = post]
    /\ prev_index' = movie_index
    /\ n_posts' = n_posts + 1
    /\ UNCHANGED <<user_data, react_log, search>>

\* bot.py:124: add_reaction returns and the handler ends
reaction_returns(m) ==
    /\ reactions[m] > 0
    /\ reactions' = [reactions EXCEPT ![m] = @ - 1]
    /\ react_log' = "ok"
    /\ UNCHANGED <<movie_index, user_data, search, last_update, prev_index, n_posts>>

\* Mutant: when add_reaction raises the write is undone.
reaction_raises_rolling_back(m) ==
    /\ reactions[m] > 0
    /\ reactions' = [reactions EXCEPT ![m] = @ - 1]
    /\ react_log' = "warning"
    /\ movie_index' = prev_index
    /\ UNCHANGED <<user_data, search, last_update, prev_index, n_posts>>

\* bot.py:125-126: add_reaction raises, the warning is logged, the handler ends
reaction_raises(m) ==
    /\ reactions[m] > 0
    /\ reactions' = [reactions EXCEPT ![m] = @ - 1]
    /\ react_log' = "warning"
    /\ UNCHANGED <<movie_index, user_data, search, last_update, prev_index, n_posts>>

-----------------------------------------------------------------------------
(* Language selection: the keyboards and button_handler.                   *)

Users == {"u1", "u2"}

\* user_data.get('language') when no language was chosen: None, which every
\* test of the source (`if user_lang_code`, `if lang_code`) treats as ''.
NoLanguage == <<>>

\* bot.py:26-30
LANGUAGE_DATA ==
    <<"e","n">> :> [name |-> "English", region |-> "US"] @@
    <<"h","i">> :> [name |-> "Hindi",   region |-> "IN"] @@
    <<"t","a">> :> [name |-> "Tamil",   region |-> "IN"] @@
    <<"t","e">> :> [name |-> "Telugu",  region |-> "IN"] @@
    <<"e","s">> :> [name |-> "Spanish", region |-> "ES"] @@
    <<"f","r">> :> [name |-> "French",  region |-> "FR"]

\* callback_data of the buttons, bot.py:34 and bot.py:38
show_more_langs == <<"s","h","o","w","_","m","o","r","e","_","l","a","n","g","s">>

back_to_main == <<"b","a","c","k","_","t","o","_","m","a","i","n">>

lang_ == <<"l","a","n","g","_">>

lang_hi == <<"l","a","n","g","_","h","i">>

lang_en == <<"l","a","n","g","_","e","n">>

lang_ta == <<"l","a","n","g","_","t","a">>

lang_te == <<"l","a","n","g","_","t","e">>

lang_es == <<"l","a","n","g","_","e","s">>

lang_fr == <<"l","a","n","g","_","f","r">>

\* bot.py:33-35
get_main_menu_keyboard == {lang_hi, lang_en, show_more_langs}

\* bot.py:37-39
get_more_languages_keyboard == {lang_ta, lang_te, lang_es, lang_fr, back_to_main}

\* The buttons pressed in Spec, and in SpecTmdb.
PressedData == {lang_en, show_more_langs}

TmdbPressedData == {lang_en, lang_fr, back_to_main}

\* bot.py:47-59: only the 'lang_' branch changes state
button_handler(user, data) ==
    /\ data \in get_main_menu_keyboard \cup get_more_languages_keyboard
    /\ user_data' =
          IF data = show_more_langs THEN user_data
          ELSE IF data = back_to_main THEN user_data
          ELSE IF startswith(data, lang_)
          THEN [user_data EXCEPT ![user] = split(data, "_")[2]]
          ELSE user_data
    /\ UNCHANGED <<movie_index, reactions, react_log, search, last_update,
                   prev_index, n_posts>>

-----------------------------------------------------------------------------
(* search_tmdb.                                                            *)

\* What the provider answers to the two requests of search_tmdb: whether
\* each request succeeds (raise_for_status), the "results" of the search,
\* and whether the details carry a poster_path.
TmdbResponse(search_ok, results, details_ok, poster_path) ==
    [search_ok   |-> search_ok,
     results     |-> results,
     details_ok  |-> details_ok,
     poster_path |-> poster_path]

\* search_tmdb returned None
NoTmdbData == [found |-> FALSE, id |-> 0, poster_url |-> FALSE]

\* bot.py:214-216: the id of the first result in the given language, 0
\* (found_movie_id stays None) when the loop ends without a break
RECURSIVE first_in_language(_, _)
first_in_language(results, lang_code) ==
    IF Len(results) = 0 THEN 0
    ELSE IF Head(results).original_language = lang_code THEN Head(results).id
    ELSE first_in_language(Tail(results), lang_code)

\* Mutant: the first result is taken whatever the language.
found_movie_id_first_result(results, lang_code) == results[1].id

\* bot.py:212-218
found_movie_id(results, lang_code) ==
    IF lang_code # NoLanguage
    THEN first_in_language(results, lang_code)
    ELSE results[1].id

\* bot.py:203-227
search_tmdb(response, lang_code) ==
    IF ~response.search_ok THEN NoTmdbData
    ELSE IF response.results = <<>> THEN NoTmdbData
    ELSE IF found_movie_id(response.results, lang_code) = 0 THEN NoTmdbData
    ELSE IF ~response.details_ok THEN NoTmdbData
    ELSE [found      |-> TRUE,
          id         |-> found_movie_id(response.results, lang_code),
          poster_url |-> response.poster_path]

-----------------------------------------------------------------------------
(* search_media.                                                           *)

\* A call of the platform that the handler awaits: the method, what is
\* sent (a TMDB card, a library entry, the apology, the 'not found' text)
\* and its arguments.
Call(method, what, file_id, text, buttons, tmdb_id) ==
    [method  |-> method,
     what    |-> what,
     file_id |-> file_id,
     text    |-> text,
     buttons |-> buttons,
     tmdb_id |-> tmdb_id]

NoCall == Call(None, None, None, <<>>, <<>>, 0)

\* bot.py:139-154: the TMDB card, as a photo when there is a poster_url
tmdb_reply(tmdb_data) ==
    Call(IF tmdb_data.poster_url THEN "reply_photo" ELSE "reply_text",
         "tmdb", None, <<>>, <<>>, tmdb_data.id)

\* clean_caption, tabulated over the captions of the model
CleanedCaption == [c \in AllCaptions |-> clean_caption(c)]

\* Mutant: the entry is sent without its buttons (reply_markup left out).
index_send_without_buttons(entry) ==
    LET file_id   == entry.file_id
        file_type == entry.file_type
        cleaned   == CleanedCaption[entry.original_caption]
    IN  IF Truthy(file_id) /\ file_type = "photo"
        THEN Call("send_photo", "library", file_id, cleaned, <<>>, 0)
        ELSE IF Truthy(file_id) /\ file_type = "video"
        THEN Call("send_video", "library", file_id, cleaned, <<>>, 0)
        ELSE IF Truthy(file_id) /\ file_type = "document"
        THEN Call("send_document", "library", file_id, cleaned, <<>>, 0)
        ELSE Call("send_message", "library", None, cleaned, <<>>, 0)

\* bot.py:163-191: the library entry, sent by the method its file asks for
index_send(entry) ==
    LET file_id   == entry.file_id
        file_type == entry.file_type
        cleaned   == CleanedCaption[entry.original_caption]
    IN  IF Truthy(file_id) /\ file_type = "photo"
        THEN Call("send_photo", "library", file_id, cleaned, entry.buttons, 0)
        ELSE IF Truthy(file_id) /\ file_type = "video"
        THEN Call("send_video", "library", file_id, cleaned, entry.buttons, 0)
        ELSE IF Truthy(file_id) /\ file_type = "document"
        THEN Call("send_document", "library", file_id, cleaned, entry.buttons, 0)
        ELSE Call("send_message", "library", None, cleaned, entry.buttons, 0)

\* bot.py:196
apology_reply == Call("reply_text", "apology", None, <<>>, <<>>, 0)

\* bot.py:200
not_found_reply == Call("reply_text", "not_found", None, <<>>, <<>>, 0)

\* bot.py:135
region_of(lang_code) ==
    IF lang_code # NoLanguage /\ lang_code \in DOMAIN LANGUAGE_DATA
    THEN LANGUAGE_DATA[lang_code].region
    ELSE None

\* The handler before any message: no request, nothing awaited.
Idle ==
    [stage      |-> "idle",
     user       |-> None,
     query      |-> <<>>,
     lang       |-> NoLanguage,
     region     |-> None,
     response   |-> TmdbResponse(FALSE, <<>>, FALSE, FALSE),
     tmdb_calls |-> 0,
     tmdb_data  |-> NoTmdbData,
     index_seen |-> [k \in {} |-> NoCall],
     call       |-> NoCall,
     outcome    |-> None]

\* bot.py:138-200: the stage the handler suspends in
first_await(index, tmdb_data, query, lang) ==
    IF tmdb_data.found THEN "reply_tmdb"
    ELSE IF lang # NoLanguage /\ index_key(query, lang) \in DOMAIN index
    THEN "send_index"
    ELSE "reply_not_found"

\* Mutant: the library is tried before the provider's result is used.
first_call_library_first(index, tmdb_data, query, lang) ==
    IF lang # NoLanguage /\ index_key(query, lang) \in DOMAIN index
    THEN index_send(index[index_key(query, lang)])
    ELSE IF tmdb_data.found THEN tmdb_reply(tmdb_data)
    ELSE not_found_reply

\* bot.py:138-200: the call the handler suspends in
first_call(index, tmdb_data, query, lang) ==
    IF tmdb_data.found THEN tmdb_reply(tmdb_data)
    ELSE IF lang # NoLanguage /\ index_key(query, lang) \in DOMAIN index
    THEN index_send(index[index_key(query, lang)])
    ELSE not_found_reply

\* Mutant: the language is read from a dict shared by the users, where the
\* other user's choice is found.
search_media_shared_language(user, text, response) ==
    LET query     == strip(lower(text))
        lang      == user_data[CHOOSE v \in Users : v # user]
        tmdb_data == search_tmdb(response, lang)
    IN  /\ search.stage \in {"idle", "done"}
        /\ search' =
              [stage      |-> first_await(movie_index, tmdb_data, query, lang),
               user       |-> user,
               query      |-> query,
               lang       |-> lang,
               region     |-> region_of(lang),
               response   |-> response,
               tmdb_calls |-> 1,
               tmdb_data  |-> tmdb_data,
               index_seen |-> movie_index,
               call       |-> first_call(movie_index, tmdb_data, query, lang),
               outcome    |-> None]
        /\ UNCHANGED <<movie_index, user_data, reactions, react_log,
                       last_update, prev_index, n_posts>>

\* search_media, bot.py:129-200, from the start to its first await that
\* suspends: the provider lookup (search_tmdb blocks, it never yields), the
\* library lookup, and the choice of the message to send.
search_media(user, text, response) ==
    LET query     == strip(lower(text))
        lang      == user_data[user]
        tmdb_data == search_tmdb(response, lang)
    IN  /\ search.stage \in {"idle", "done"}
        /\ search' =
              [stage      |-> first_await(movie_index, tmdb_data, query, lang),
               user       |-> user,
               query      |-> query,
               lang       |-> lang,
               region     |-> region_of(lang),
               response   |-> response,
               tmdb_calls |-> 1,
               tmdb_data  |-> tmdb_data,
               index_seen |-> movie_index,
               call       |-> first_call(movie_index, tmdb_data, query, lang),
               outcome    |-> None]
        /\ UNCHANGED <<movie_index, user_data, reactions, react_log,
                       last_update, prev_index, n_posts>>

\* Mutant: after the apology the handler goes on to the 'not found' reply
\* (the return of bot.py:197 left out).
outcome_of_without_return(stage) ==
    IF stage = "reply_tmdb" THEN "Sent" ELSE "NotFoundResponse"

\* The terminal state a reply leads to.
outcome_of(stage) ==
    IF stage = "reply_tmdb" THEN "Sent"
    ELSE IF stage = "reply_apology" THEN "Apology"
    ELSE "NotFoundResponse"

\* bot.py:152-155, 196-197, 200: the awaited reply returns, the handler ends
reply_returns ==
    /\ search.stage \in {"reply_tmdb", "reply_apology", "reply_not_found"}
    /\ search' = [search EXCEPT !.stage = "done",
                                !.outcome = outcome_of(search.stage)]
    /\ UNCHANGED <<movie_index, user_data, reactions, react_log,
                   last_update, prev_index, n_posts>>

\* Mutant: the caption and the buttons are read from movie_index again when
\* the send is made, the file from the entry looked up before.
send_returns_rereading ==
    /\ search.stage = "send_index"
    /\ search' =
          [search EXCEPT
              !.stage = "done",
              !.outcome = "Sent",
              !.call = [index_send(movie_index[index_key(search.query, search.lang)])
                           EXCEPT !.file_id = search.call.file_id,
                                  !.method = search.call.method]]
    /\ UNCHANGED <<movie_index, user_data, reactions, react_log,
                   last_update, prev_index, n_posts>>

\* bot.py:184-192: the awaited send_* returns, the handler ends
send_returns ==
    /\ search.stage = "send_index"
    /\ search' = [search EXCEPT !.stage = "done", !.outcome = "Sent"]
    /\ UNCHANGED <<movie_index, user_data, reactions, react_log,
                   last_update, prev_index, n_posts>>

\* bot.py:193-196: the awaited send_* raises, the handler logs the error and
\* awaits the apology
send_raises ==
    /\ search.stage = "send_index"
    /\ search' = [search EXCEPT !.stage = "reply_apology",
                                !.call = apology_reply]
    /\ UNCHANGED <<movie_index, user_data, reactions, react_log,
                   last_update, prev_index, n_posts>>

-----------------------------------------------------------------------------
(* Inputs of the model.                                                    *)

\* Posts of SpecIndex: posts and edits of three captions with both tags
\* (two of them with the same key), posts whose caption lacks a tag or is
\* missing, and a post of another chat.
TaggedCaptions == {CapFoo, CapFooUpdated, CapFooStory}

UntaggedCaptions == {CapNoLang, CapNoTitle, CapLinks, NoCaption}

IndexPosts ==
    {Post(PRIVATE_CHANNEL_ID, m, c, media, FALSE) :
        m \in MsgIds, c \in TaggedCaptions,
        media \in {PhotoMedia, VideoMedia, DocumentMedia}}
    \cup
    {Post(PRIVATE_CHANNEL_ID, m, c, media, TRUE) :
        m \in MsgIds, c \in TaggedCaptions, media \in {NoMedia, PhotoMedia}}
    \cup
    {Post(PRIVATE_CHANNEL_ID, 1, c, media, FALSE) :
        c \in UntaggedCaptions,
        media \in {NoMedia, PhotoMedia, VideoMedia, DocumentMedia}}
    \cup
    {Post(OtherChatId, 1, CapFoo, PhotoMedia, FALSE)}

\* Posts of SpecParse: one photo post for each caption.
ParsePosts ==
    {Post(PRIVATE_CHANNEL_ID, 1, c, PhotoMedia, FALSE) : c \in ParseCaptions}

\* Posts of Spec, the whole bot: a small library.
LibraryPosts ==
    {Post(PRIVATE_CHANNEL_ID, 1, CapFooStory, PhotoMedia, FALSE),
     Post(PRIVATE_CHANNEL_ID, 1, CapFoo, NoMedia, TRUE),
     Post(PRIVATE_CHANNEL_ID, 1, CapLinks, DocumentMedia, FALSE),
     Post(PRIVATE_CHANNEL_ID, 2, CapTheFoo, VideoMedia, FALSE)}

\* Text messages of the users.
\* ' FOO '
TextFoo ==
    <<" ","F","O","O"," ">>

\* 'Bar'
TextBar ==
    <<"B","a","r">>

Texts == {TextFoo, TextBar}

\* original_language values of the provider's results
Languages == {<<"e","n">>, <<"f","r">>}

\* The results of a search: the i-th has id 550 + i.
ResultsOf(langs) ==
    [i \in 1..Len(langs) |-> [id |-> 550 + i, original_language |-> langs[i]]]

\* All result lists of at most n results.
ResultLists(n) ==
    {ResultsOf(langs) : langs \in UNION {[1..k -> Languages] : k \in 0..n}}

\* Provider answers of Spec: the search fails; a French and an English
\* film; a French film only.
TmdbResponses ==
    {TmdbResponse(FALSE, <<>>, FALSE, FALSE),
     TmdbResponse(TRUE, ResultsOf(<<<<"f","r">>, <<"e","n">>>>), TRUE, TRUE),
     TmdbResponse(TRUE, ResultsOf(<<<<"f","r">>>>), TRUE, FALSE)}

\* Provider answers of SpecTmdb: every result list of at most MaxResults
\* results, with each request failing or not.
AllTmdbResponses ==
    {TmdbResponse(ok1, results, ok2, poster) :
        ok1 \in BOOLEAN, results \in ResultLists(MaxResults),
        ok2 \in BOOLEAN, poster \in BOOLEAN}

-----------------------------------------------------------------------------
(* Specifications.                                                         *)

NoUpdate ==
    [post   |-> Post(None, 0, NoCaption, NoMedia, FALSE),
     stored |-> FALSE,
     repeat |-> FALSE]

Init ==
    /\ movie_index = [k \in {} |-> NoCall]
    /\ user_data = [u \in Users |-> NoLanguage]
    /\ reactions = [m \in MsgIds |-> 0]
    /\ react_log = None
    /\ search = Idle
    /\ last_update = NoUpdate
    /\ prev_index = [k \in {} |-> NoCall]
    /\ n_posts = 0

ChannelPost == \E post \in LibraryPosts : update_index(post)

ReactionReturns == \E m \in MsgIds : reaction_returns(m)

ReactionRaises == \E m \in MsgIds : reaction_raises(m)

ButtonPressed == \E u \in Users, data \in PressedData : button_handler(u, data)

TextMessage ==
    \E u \in Users, text \in Texts, response \in TmdbResponses :
        search_media(u, text, response)

ReplyReturns == reply_returns

SendReturns == send_returns

SendRaises == send_raises

\* The whole bot.
Next ==
    \/ ChannelPost
    \/ ReactionReturns
    \/ ReactionRaises
    \/ ButtonPressed
    \/ TextMessage
    \/ ReplyReturns
    \/ SendReturns
    \/ SendRaises

Spec == Init /\ [][Next]_vars

\* The index under posts and edits of the channel.
IndexPost == \E post \in IndexPosts : update_index(post)

NextIndex ==
    \/ IndexPost
    \/ ReactionReturns
    \/ ReactionRaises

SpecIndex == Init /\ [][NextIndex]_vars

\* The caption parser, one post per caption.
ParsePost == \E post \in ParsePosts : update_index(post)

NextParse ==
    \/ ParsePost
    \/ ReactionReturns
    \/ ReactionRaises

SpecParse == Init /\ [][NextParse]_vars

\* search_tmdb under every provider answer.
LanguageChosen ==
    \E u \in Users, data \in TmdbPressedData : button_handler(u, data)

ProviderSearch ==
    \E u \in Users, text \in {TextBar}, response \in AllTmdbResponses :
        search_media(u, text, response)

NextTmdb ==
    \/ LanguageChosen
    \/ ProviderSearch
    \/ ReplyReturns

SpecTmdb == Init /\ [][NextTmdb]_vars

-----------------------------------------------------------------------------
(* Properties of the index under posts and edits (SpecIndex).              *)

\* The update that update_index handled last, and the key of its caption.
LastPost == last_update.post

LastKey == key_of(LastPost.caption)

\* The post carries no photo, video or document.
CarriesNoFile(post) ==
    post.photo = <<>> /\ post.video = None /\ post.document = None

\* C1: when update_index stores a post of the source channel that carries
\* no photo, video or document under a key that already has an entry, the
\* entry keeps the file_id and file_type it had, and its original_caption
\* is the caption of that post.
C1_CaptionOnlyEditKeepsFile ==
    (last_update.stored /\ CarriesNoFile(LastPost) /\ LastKey \in DOMAIN prev_index)
    => /\ LastKey \in DOMAIN movie_index
       /\ movie_index[LastKey].file_id = prev_index[LastKey].file_id
       /\ movie_index[LastKey].file_type = prev_index[LastKey].file_type
       /\ movie_index[LastKey].original_caption = LastPost.caption

\* An entry with a file has just been re-indexed by a post without one whose
\* caption differs from the stored one.
C1_Witness ==
    /\ last_update.stored
    /\ CarriesNoFile(LastPost)
    /\ LastKey \in DOMAIN prev_index
    /\ prev_index[LastKey].file_id # None
    /\ prev_index[LastKey].original_caption # LastPost.caption

\* C2: after the photo post '#Title Foo / #Lang en' was indexed and the same
\* post is edited to '#Title Foo Updated / #Lang en' without a photo, the
\* index holds an entry of that post with the original photo and the
\* edited caption.
C2_EditedPostKeepsPhoto ==
    LET m == LastPost.message_id
    IN  (/\ LastPost = Post(PRIVATE_CHANNEL_ID, m, CapFooUpdated, NoMedia, TRUE)
         /\ \E k \in DOMAIN prev_index :
               /\ prev_index[k].message_id = m
               /\ prev_index[k].original_caption = CapFoo
               /\ prev_index[k].file_type = "photo")
        => \E k \in DOMAIN movie_index :
               /\ movie_index[k].message_id = m
               /\ movie_index[k].file_type = "photo"
               /\ movie_index[k].file_id = PhotoMedia.photo[Len(PhotoMedia.photo)]
               /\ movie_index[k].original_caption = CapFooUpdated

\* The caption has a title tag: the marker in any letter case, whitespace,
\* then a character of the title.
HasTitleTag(c) ==
    \E i \in 1..Len(c), j \in 1..Len(c) :
        /\ OccursAtIgnoreCase(c, TitleMarker, i)
        /\ j > i + Len(TitleMarker)
        /\ \A k \in (i + Len(TitleMarker))..(j - 1) : IsSpace(c[k])
        /\ c[j] # NL

\* The caption has a language tag: the marker in any letter case,
\* whitespace, then two letters.
HasLangTag(c) ==
    \E i \in 1..Len(c), j \in 1..(Len(c) - 1) :
        /\ OccursAtIgnoreCase(c, LangMarker, i)
        /\ j > i + Len(LangMarker)
        /\ \A k \in (i + Len(LangMarker))..(j - 1) : IsSpace(c[k])
        /\ IsAlpha(c[j])
        /\ IsAlpha(c[j + 1])

C7_RepeatedPostChangesNothing ==
    (last_update.repeat /\ last_update.stored)
    => /\ Cardinality(DOMAIN movie_index) = Cardinality(DOMAIN prev_index)
       /\ LastKey \in DOMAIN prev_index
       /\ LastKey \in DOMAIN movie_index
       /\ movie_index[LastKey] = prev_index[LastKey]

\* A post with a file and a button has been handled a second time in a row.
C7_Witness ==
    /\ last_update.repeat
    /\ last_update.stored
    /\ movie_index[LastKey].file_id # None
    /\ movie_index[LastKey].buttons # <<>>

\* C11: after an update that update_index accepts for key K, the entry at K
\* has the original_caption, the buttons and the message_id of that update
\* and nothing of the entry it replaces; the entries of the other keys are
\* the ones of the last update accepted for their key.
C11_LastWriteWins ==
    /\ last_update.stored
       => /\ LastKey \in DOMAIN movie_index
          /\ movie_index[LastKey].original_caption = LastPost.caption
          /\ movie_index[LastKey].message_id = LastPost.message_id
          /\ movie_index[LastKey].buttons = extract_buttons(LastPost.caption)
          /\ \A k \in DOMAIN prev_index \ {LastKey} :
                k \in DOMAIN movie_index /\ movie_index[k] = prev_index[k]
    /\ \A k \in DOMAIN movie_index :
          /\ key_of(movie_index[k].original_caption) = k
          /\ movie_index[k].buttons = extract_buttons(movie_index[k].original_caption)

\* An entry with a button has been replaced by an update of another message
\* whose caption differs and has no button.
C11_Witness ==
    /\ last_update.stored
    /\ LastKey \in DOMAIN prev_index
    /\ prev_index[LastKey].buttons # <<>>
    /\ prev_index[LastKey].original_caption # LastPost.caption
    /\ prev_index[LastKey].message_id # LastPost.message_id
    /\ movie_index[LastKey].buttons = <<>>

\* C13: when add_reaction raises, the handler logs the warning and ends; the
\* step changes nothing of movie_index, so the entry stays as written, and
\* update_index can handle a further post afterwards.
C13_FailedReactionKeepsEntry ==
    [][ReactionRaises
       => /\ movie_index' = movie_index
          /\ react_log' = "warning"
          /\ Pending' = Pending - 1
          /\ last_update.stored
                => /\ LastKey \in DOMAIN movie_index'
                   /\ movie_index'[LastKey] = new_entry(prev_index, LastKey, LastPost)
          /\ n_posts < MaxPosts => ENABLED IndexPost]_vars

\* A reaction has failed, the entry of its post is still in the index, and a
\* later post has been stored and is waiting for its own reaction.
C13_Witness ==
    /\ react_log = "warning"
    /\ n_posts = 2
    /\ last_update.stored
    /\ Pending = 1
    /\ \E k \in DOMAIN prev_index : k # LastKey /\ k \in DOMAIN movie_index

\* C14: an update of another chat than PRIVATE_CHANNEL_ID, and an update of
\* the source channel without caption, leave movie_index as it was,
\* whatever the media and the tags of the update.
C14_OtherChatOrNoCaptionLeavesIndex ==
    (n_posts > 0 /\ (LastPost.chat_id # PRIVATE_CHANNEL_ID \/ LastPost.caption = NoCaption))
    => /\ movie_index = prev_index
       /\ ~last_update.stored

\* A photo post of another chat with both tags has been handled.
C14_Witness ==
    /\ n_posts > 0
    /\ LastPost.chat_id = OtherChatId
    /\ HasTitleTag(LastPost.caption)
    /\ HasLangTag(LastPost.caption)
    /\ LastPost.photo # <<>>
    /\ key_of(LastPost.caption) \notin DOMAIN movie_index

\* The file_id and file_type an update can carry: those of its photo, video
\* or document, or none of both.
FilePairs == {current_file(post) : post \in IndexPosts}

\* C17: every entry has file_id None exactly when file_type is None, a
\* file_type that is photo, video or document otherwise, and a file_id and
\* file_type that one update carried together.
C17_FileIdAndTypeGoTogether ==
    \A k \in DOMAIN movie_index :
        LET e == movie_index[k]
        IN  /\ e.file_id = None <=> e.file_type = None
            /\ e.file_type # None => e.file_type \in {"photo", "video", "document"}
            /\ [file_id |-> e.file_id, file_type |-> e.file_type] \in FilePairs

\* An entry that had a photo has been re-indexed by a post carrying a video,
\* or by a caption-only edit.
C17_Witness ==
    /\ last_update.stored
    /\ LastKey \in DOMAIN prev_index
    /\ prev_index[LastKey].file_type = "photo"
    /\ \/ movie_index[LastKey].file_type = "video"
       \/ CarriesNoFile(LastPost) /\ movie_index[LastKey].file_type = "photo"

\* C18: update_index reads the existing entry and writes the new one in one
\* step (its only await comes after the write), so whichever of a post with
\* a file and a caption-only edit of the same key is handled first, and
\* whichever handlers are still suspended in add_reaction, the entry has
\* the file of the post afterwards.
C18_NoInterleavingLosesFile ==
    (last_update.stored /\ LastKey \in DOMAIN prev_index)
    => LET cur == current_file(LastPost)
           old == prev_index[LastKey]
           e   == movie_index[LastKey]
       IN  /\ (cur.file_id = None /\ old.file_id # None)
              => e.file_id = old.file_id /\ e.file_type = old.file_type
           /\ (cur.file_id # None /\ old.file_id = None)
              => e.file_id = cur.file_id /\ e.file_type = cur.file_type
           /\ (cur.file_id # None \/ old.file_id # None) => e.file_id # None

\* The handlers of a post with a file and of a caption-only edit of the same
\* key are both suspended in add_reaction, the edit having come second.
C18_Witness ==
    /\ Pending = 2
    /\ last_update.stored
    /\ LastPost.edited
    /\ CarriesNoFile(LastPost)
    /\ LastKey \in DOMAIN prev_index
    /\ prev_index[LastKey].file_id # None
    /\ movie_index[LastKey].file_id = prev_index[LastKey].file_id

\* The handlers of a caption-only edit and of a post with a file of the same
\* key are both suspended in add_reaction, the post having come second.
C18_WitnessPostSecond ==
    /\ Pending = 2
    /\ last_update.stored
    /\ ~CarriesNoFile(LastPost)
    /\ LastKey \in DOMAIN prev_index
    /\ prev_index[LastKey].file_id = None
    /\ movie_index[LastKey].file_id # None

-----------------------------------------------------------------------------
(* Properties of the caption parser (SpecParse).                           *)

\* The line of caption c that position pos lies on.
LineAround(c, pos) ==
    LET before == {i \in 1..(pos - 1) : c[i] = NL}
        after  == {i \in pos..Len(c) : c[i] = NL}
        first  == IF before = {} THEN 1 ELSE Max(before) + 1
        last   == IF after = {} THEN Len(c) ELSE Min(after) - 1
    IN  Slice(c, first, last)

\* Position pos lies on a button line: the first thing on the line that is
\* not whitespace is '#button', in any letter case.
OnButtonLine(c, pos) ==
    LET line == LineAround(c, pos)
    IN  \E p \in 1..Len(line) :
            /\ \A q \in 1..(p - 1) : IsSpace(line[q])
            /\ OccursAtIgnoreCase(line, ButtonMarker, p)

\* The "](" that end the label of a pair '[label](url)' opening at i, all on
\* one line.
PairMiddles(c, i) ==
    {j \in (i + 1)..(Len(c) - 1) :
        /\ c[i] = "["
        /\ c[j] = "]"
        /\ c[j + 1] = "("
        /\ \A k \in i..j : c[k] # NL
        /\ \E k \in (j + 2)..Len(c) :
              c[k] = ")" /\ \A n \in j..k : c[n] # NL}

\* The ')' that closes the pair whose label ends at j.
PairClose(c, j) == Min({k \in (j + 2)..Len(c) : c[k] = ")"})

\* The pairs '[label](url)' of the caption from position pos on, in order of
\* appearance: all of them, or those on button lines only.
RECURSIVE PairsFrom(_, _, _)
PairsFrom(c, pos, anywhere) ==
    IF pos > Len(c) THEN <<>>
    ELSE IF PairMiddles(c, pos) # {} /\ (anywhere \/ OnButtonLine(c, pos))
    THEN LET j == Min(PairMiddles(c, pos))
             k == PairClose(c, j)
         IN  <<[text |-> Slice(c, pos + 1, j - 1), url |-> Slice(c, j + 2, k - 1)]>>
             \o PairsFrom(c, k + 1, anywhere)
    ELSE PairsFrom(c, pos + 1, anywhere)

\* A pair with a label and a url.
HasLabelAndUrl(pair) == pair.text # <<>> /\ pair.url # <<>>

\* One button for each pair that has a label and a url, both trimmed.
ButtonsOfPairs(pairs) ==
    LET kept == SelectSeq(pairs, HasLabelAndUrl)
    IN  [n \in 1..Len(kept) |->
            [text |-> strip(kept[n].text), url |-> strip(kept[n].url)]]

TitleTagAt(c) ==
    Min({i \in 1..Len(c) :
            /\ OccursAtIgnoreCase(c, TitleMarker, i)
            /\ i + Len(TitleMarker) <= Len(c)
            /\ IsSpace(c[i + Len(TitleMarker)])})

\* The title text: what follows the marker up to the end of its line.
TitleText(c) ==
    LET p   == TitleTagAt(c) + Len(TitleMarker)
        nls == {k \in p..Len(c) : c[k] = NL}
    IN  Slice(c, p, IF nls = {} THEN Len(c) ELSE Min(nls) - 1)

\* The language code: the two letters after the first '#Lang' marker, in any
\* letter case, that whitespace and two letters follow.
LangCode(c) ==
    LET at == {j \in 1..(Len(c) - 1) :
                  /\ IsAlpha(c[j])
                  /\ IsAlpha(c[j + 1])
                  /\ \E i \in 1..Len(c) :
                        /\ OccursAtIgnoreCase(c, LangMarker, i)
                        /\ j > i + Len(LangMarker)
                        /\ \A k \in (i + Len(LangMarker))..(j - 1) : IsSpace(c[k])}
    IN  Slice(c, Min(at), Min(at) + 1)

\* C6: the key under which update_index stores a caption with both tags is
\* lower(trimmed title text up to the end of the line) + '_' + lower(language
\* code), whatever the letter case of the markers and the whitespace around
\* the title.
C6_KeyIsTitleOfLineAndLang ==
    \A k \in DOMAIN movie_index :
        k = lower(strip(TitleText(movie_index[k].original_caption)))
            \o <<"_">> \o lower(LangCode(movie_index[k].original_caption))

\* The language codes tagged in the caption: the '#Lang' marker in any
\* letter case, whitespace, then exactly two letters, that is two letters
\* with no third letter after them.
ExactLangCodes(c) ==
    {Slice(c, j, j + 1) : j \in
        {j \in 1..(Len(c) - 1) :
            /\ IsAlpha(c[j])
            /\ IsAlpha(c[j + 1])
            /\ j + 2 <= Len(c) => ~IsAlpha(c[j + 2])
            /\ \E i \in 1..Len(c) :
                  /\ OccursAtIgnoreCase(c, LangMarker, i)
                  /\ j > i + Len(LangMarker)
                  /\ \A k \in (i + Len(LangMarker))..(j - 1) : IsSpace(c[k])}}

\* C16: a caption is indexed under language code c only if its '#Lang'
\* marker is followed by exactly two letters which lower-cased are c; a
\* caption whose marker is followed by a longer run of letters is not
\* indexed.
C16_LangIsExactlyTwoLetters ==
    \A k \in DOMAIN movie_index :
        \E code \in ExactLangCodes(movie_index[k].original_caption) :
            /\ Len(k) >= 3
            /\ Slice(k, Len(k) - 2, Len(k)) = <<"_">> \o lower(code)

-----------------------------------------------------------------------------
(* Properties of the query resolver (Spec, SpecTmdb).                      *)

\* A text message is being handled or has been handled.
Searched == search.stage # "idle"

\* The key the handler looks up, and whether the library held it when the
\* handler read the library.
SearchKey == index_key(search.query, search.lang)

LibraryCase ==
    /\ Searched
    /\ ~search.tmdb_data.found
    /\ search.lang # NoLanguage
    /\ SearchKey \in DOMAIN search.index_seen

\* The send_* method that goes with a file type.
SendMethod(file_type) ==
    IF file_type = "photo" THEN "send_photo"
    ELSE IF file_type = "video" THEN "send_video"
    ELSE IF file_type = "document" THEN "send_document"
    ELSE "send_message"

\* The awaited call carries the stored content of the entry: its file by
\* file_id when it has one, its cleaned caption, its buttons.
CarriesEntry(call, entry) ==
    /\ call.what = "library"
    /\ call.text = clean_caption(entry.original_caption)
    /\ call.buttons = entry.buttons
    /\ entry.file_id # None =>
          call.file_id = entry.file_id /\ call.method = SendMethod(entry.file_type)
    /\ entry.file_id = None =>
          call.file_id = None /\ call.method = "send_message"

\* C4 as claimed: when the provider lookup returns nothing, the user has a
\* language preference L and the library holds '<query>_<L>', the handler
\* ends with that entry's stored content delivered.
C4_IndexHitIsDelivered ==
    (LibraryCase /\ search.stage = "done")
    => /\ search.outcome = "Sent"
       /\ CarriesEntry(search.call, search.index_seen[SearchKey])

\* C4 amended: in that case the handler sends the entry's stored content
\* (its file by file_id when present, the cleaned caption, the stored
\* buttons) and ends with it delivered or, when the send raises, with the
\* apology of bot.py:196; it never sends the 'not found' message.
C4_IndexHitIsSentOrApologised ==
    LibraryCase
    => /\ search.stage \in {"send_index", "reply_apology", "done"}
       /\ search.call.what # "not_found"
       /\ search.stage = "done" => search.outcome \in {"Sent", "Apology"}
       /\ (search.stage = "send_index" \/ search.outcome = "Sent")
             => CarriesEntry(search.call, search.index_seen[SearchKey])
       /\ (search.stage = "reply_apology" \/ search.outcome = "Apology")
             => search.call = apology_reply

\* An entry with a photo and a button was found for the query and delivered.
C4_Witness ==
    /\ LibraryCase
    /\ search.stage = "done"
    /\ search.outcome = "Sent"
    /\ search.call.method = "send_photo"
    /\ search.call.buttons # <<>>

SomeResultIn(results, lang) ==
    \E i \in 1..Len(results) : results[i].original_language = lang

\* C9: with a language preference L, search_tmdb selects the first result in
\* response order whose original_language is L, never one in another
\* language, and has no result when none is in L; without a preference it
\* selects the first result.
C9_FirstResultInLanguage ==
    LET results == search.response.results
        lang    == search.lang
        data    == search.tmdb_data
    IN  Searched
        => /\ data.found
              => \E i \in 1..Len(results) :
                    /\ data.id = results[i].id
                    /\ lang = NoLanguage => i = 1
                    /\ lang # NoLanguage
                          => /\ results[i].original_language = lang
                             /\ \A j \in 1..(i - 1) :
                                   results[j].original_language # lang
           /\ (lang # NoLanguage /\ ~SomeResultIn(results, lang)) => ~data.found
           /\ (/\ search.response.search_ok
               /\ search.response.details_ok
               /\ results # <<>>
               /\ lang = NoLanguage \/ SomeResultIn(results, lang))
              => data.found

\* With a preference set, the first result is in another language and the
\* second, in the preferred language, is selected.
C9_Witness ==
    /\ Searched
    /\ search.lang # NoLanguage
    /\ Len(search.response.results) >= 2
    /\ search.response.results[1].original_language # search.lang
    /\ search.tmdb_data.found
    /\ search.tmdb_data.id = search.response.results[2].id

\* C10: search_media sends content of movie_index only if the provider
\* lookup returned nothing and the user has a language preference; when the
\* provider returns a result the TMDB card is sent and nothing of the index;
\* a user without preference whose provider lookup fails gets the 'not
\* found' reply whatever the index contains.
C10_LibraryOnlyAfterProviderMiss ==
    Searched
    => /\ search.call.what \in {"library", "apology"}
          => ~search.tmdb_data.found /\ search.lang # NoLanguage
       /\ search.tmdb_data.found
          => /\ search.call.what = "tmdb"
             /\ search.call.tmdb_id = search.tmdb_data.id
             /\ search.call.file_id = None
             /\ search.stage \in {"reply_tmdb", "done"}
       /\ (~search.tmdb_data.found /\ search.lang = NoLanguage)
          => /\ search.call = not_found_reply
             /\ search.stage = "done" => search.outcome = "NotFoundResponse"

\* A user without preference got 'not found' although the library held the
\* query under a language.
C10_Witness ==
    /\ search.stage = "done"
    /\ search.lang = NoLanguage
    /\ ~search.tmdb_data.found
    /\ search.outcome = "NotFoundResponse"
    /\ \E k \in DOMAIN search.index_seen :
          k = index_key(search.query, <<"e","n">>)

\* A line with a directive the indexer recognises: a title tag, a language
\* tag, or a '#button' line, the markers in any letter case.
IsDirectiveLine(line) ==
    \/ title_search(line).matched
    \/ lang_search(line).matched
    \/ IsButtonLine(line)

\* The line is empty or whitespace only.
IsBlankLine(line) == strip(line) = <<>>

\* C12: the caption sent with a library entry has no line carrying a
\* '#Title', '#Lang' or '#Button' directive recognised by the indexer, and
\* no leading or trailing blank line.
C12_DeliveredCaptionHasNoTagLine ==
    search.call.what = "library"
    => LET lines == split(search.call.text, NL)
       IN  /\ \A i \in 1..Len(lines) : ~IsDirectiveLine(lines[i])
           /\ ~IsBlankLine(lines[1]) \/ search.call.text = <<>>
           /\ ~IsBlankLine(lines[Len(lines)]) \/ search.call.text = <<>>

\* C15: no step removes a key of movie_index: a key that is present stays
\* present under posts, edits, reactions, language selections and searches.
C15_KeysAreNeverDeleted ==
    [][DOMAIN movie_index \subseteq DOMAIN movie_index']_vars

\* The index holds two keys after two posts, a language has been chosen and
\* a search has ended.
C15_Witness ==
    /\ Cardinality(DOMAIN movie_index) = 2
    /\ n_posts = 2
    /\ search.stage = "done"
    /\ \E u \in Users : user_data[u] # NoLanguage

\* C19: the file, the send method, the caption and the buttons of the send
\* of a library entry all come from the entry that the lookup of bot.py:160
\* returned, also when update_index has replaced the entry of that key
\* since.
C19_SendCarriesOneVersion ==
    (LibraryCase /\ search.call.what = "library")
    => LET entry == search.index_seen[SearchKey]
       IN  /\ search.call.file_id = entry.file_id
           /\ search.call.method = SendMethod(entry.file_type)
           /\ search.call.text = clean_caption(entry.original_caption)
           /\ search.call.buttons = entry.buttons

\* A library entry has been delivered after update_index replaced the entry
\* of its key, while the send was pending, by one with another caption and
\* other buttons.
C19_Witness ==
    /\ LibraryCase
    /\ search.stage = "done"
    /\ search.outcome = "Sent"
    /\ movie_index[SearchKey].original_caption
          # search.index_seen[SearchKey].original_caption
    /\ movie_index[SearchKey].buttons # search.index_seen[SearchKey].buttons
    /\ search.call.buttons # <<>>

\* C20: no step of search_media (the steps that change `search`) changes
\* movie_index or a user's language, and the call a text message leads to
\* is the one determined by the message, the provider's answer, the index
\* and the language of the user who sent it.
C20_SearchIsReadOnly ==
    [][search' # search
       => /\ UNCHANGED <<movie_index, user_data>>
          /\ search.stage \in {"idle", "done"}
             => LET own == user_data[search'.user]
                IN  /\ search'.lang = own
                    /\ search'.call =
                          first_call(movie_index,
                                     search_tmdb(search'.response, own),
                                     search'.query, own)]_vars

\* A user without language got 'not found' for a query that the library
\* holds in the language the other user has chosen.
C20_Witness ==
    /\ search.stage = "done"
    /\ search.outcome = "NotFoundResponse"
    /\ user_data[search.user] = NoLanguage
    /\ \E v \in Users \ {search.user} :
          /\ user_data[v] # NoLanguage
          /\ index_key(search.query, user_data[v]) \in DOMAIN movie_index

====
